---- MODULE Spec2Model ----
(***************************************************************************)
(* Model of the payment engine: the transaction Processor (process.rs),    *)
(* the account types (lib.rs), the arithmetic of Decimal (num.rs) and the  *)
(* stream driver (process.rs Processor::process, io.rs process).           *)
(***************************************************************************)
EXTENDS Integers, Sequences, FiniteSets, TLC

----------------------------------------------------------------------------
\* Bounds of the model.

\* Width in bits of the integer behind an Amount (u64 in num.rs:14, scaled):
\* the least width that holds every fraction of PREC + 1 digits.
AmountBits == 17
\* Clients are 1..MaxClient (ClientID is u16 in lib.rs:18).
MaxClient == 2
\* Transaction ids are 1..MaxTx (TransactionID is u32 in lib.rs:20).
MaxTx == 4
\* Number of records the stream carries after its fixed prefix.
MaxRecords == 2
\* Longest integer part and longest fractional part of a text to parse.
MaxUintLen == 2
MaxFracLen == 5

\* Journal thresholds of process.rs:11-12, scaled down with the id space so
\* that both rollout steps happen within MaxTx registrations.
ROLLOUT_TRANSACTION_THRESHOLD == 2
MAX_TRANSACTION_CAPACITY == 3

----------------------------------------------------------------------------
\* lib.rs: types.

ClientID == 1..MaxClient
TransactionID == 1..MaxTx

Deposit == "Deposit"
Withdrawal == "Withdrawal"
Dispute == "Dispute"
Resolve == "Resolve"
Chargeback == "Chargeback"
TransactionType == {Deposit, Withdrawal, Dispute, Resolve, Chargeback}

\* Option<T>: None is the empty set, Some(v) the singleton.
None == {}
Some(v) == {v}
unwrap(o) == CHOOSE v \in o : TRUE

\* Amount::MAX = Decimal(u64::MAX), at the model's width.
MAX == 2^AmountBits - 1

\* The amounts the input records carry.
Amounts == {1, MAX}

\* Transaction::new(type, tx, amount).with_client(client)
Transaction_new(type, client, tx, amount) ==
    [type |-> type, client |-> client, tx |-> tx, amount |-> amount]

\* The records of an input stream: registering kinds with or without an
\* amount, referencing kinds without one.
Transaction ==
    {Transaction_new(ty, c, tx, a) :
        ty \in {Deposit, Withdrawal}, c \in ClientID, tx \in TransactionID,
        a \in {None} \cup {Some(v) : v \in Amounts}}
    \cup
    {Transaction_new(ty, c, tx, None) :
        ty \in {Dispute, Resolve, Chargeback}, c \in ClientID, tx \in TransactionID}

\* AccountStatus::default()
AccountStatus_default == [available |-> 0, held |-> 0, locked |-> FALSE]

----------------------------------------------------------------------------
\* The state.

VARIABLES
    accounts,        \* Processor.accounts: ClientID -> AccountStatus (partial)
    transactions,    \* Processor.transactions: TransactionID -> TransactionStatus (partial)
    overflow_checks, \* the build: TRUE when integer overflow panics, FALSE when it wraps
    pc,              \* the driver: "fold", "emit", "done", "failed", "panicked"
    transaction,     \* the record of the last process_transaction call
    before,          \* the status of that record's account when the call began
    result,          \* what that call returned
    written,         \* the account records serialized so far
    stream,          \* the first records of the input stream, fixed in advance
    read,            \* how many of them have been read
    count,           \* the number of records folded after those
    filtered,        \* a second Processor, fed only the records that returned Ok
    evicted,         \* the ids rollout_transactions has removed from the journal
    seen,            \* the clients of the records process_transaction was called on
    owner,           \* for each id registered so far, the client of the record that registered it last
    disputant,       \* for each id disputed so far, the client of the Dispute applied to it last
    rollout,         \* a call of rollout_transactions: its arguments and what it left
    text,            \* the text handed to Decimal::from_str
    parsed           \* what from_str returned for it

vars == <<accounts, transactions, overflow_checks, pc, transaction, before, result,
          written, stream, read, count, filtered, evicted, seen, owner, disputant,
          rollout, text, parsed>>

----------------------------------------------------------------------------
\* num.rs: arithmetic of Decimal, on the integer behind it.

Modulus == MAX + 1
\* x + y and x - y as the build without overflow checks computes them.
wrapping_add(x, y) == (x + y) % Modulus
wrapping_sub(x, y) == (x - y) % Modulus

PanicAdd == <<"panic", "attempt to add with overflow">>
PanicSub == <<"panic", "attempt to subtract with overflow">>
NoPanic == <<"no panic">>

\* The outcome of an operation on an account status: the status, and the
\* panic that aborted it (if any).
Done(status) == [status |-> status, panic |-> NoPanic]
Aborted(status, p) == [status |-> status, panic |-> p]

----------------------------------------------------------------------------
\* process.rs: results.

Ok == <<"Ok">>
MissingAmount(tx) == <<"MissingAmount", tx>>
TransactionAlreadyExists(tx) == <<"TransactionAlreadyExists", tx>>
TransactionNotFound(tx) == <<"TransactionNotFound", tx>>
OperationNotSupported(tx, prior, t) == <<"OperationNotSupported", tx, prior, t>>
TooManyFunds(tx, client) == <<"TooManyFunds", tx, client>>
NotEnoughFunds(tx, client) == <<"NotEnoughFunds", tx, client>>
AccountLocked(tx, client) == <<"AccountLocked", tx, client>>

IsPanic(r) == r[1] = "panic"
IsErr(r) == r # Ok /\ ~IsPanic(r)

\* TransactionStatus(TransactionType, Amount)
TransactionStatus(t, amount) == [type |-> t, amount |-> amount]

----------------------------------------------------------------------------
\* num.rs: `+=` and `-=` on a Decimal. With overflow checks the operation
\* panics when the result does not fit; without them it wraps.

add_assign(x, y) ==
    IF overflow_checks /\ x + y > MAX
    THEN [value |-> x, panic |-> PanicAdd]
    ELSE [value |-> wrapping_add(x, y), panic |-> NoPanic]

sub_assign(x, y) ==
    IF overflow_checks /\ x < y
    THEN [value |-> x, panic |-> PanicSub]
    ELSE [value |-> wrapping_sub(x, y), panic |-> NoPanic]

\* num.rs: `a - b` (ops::Sub), where the caller knows b <= a.
Decimal_sub(x, y) == sub_assign(x, y).value

\* lib.rs: PREC, the number of fractional digits of an Amount.
PREC == 4
\* Decimal::FRAC, MAX_UINT and MAX_FRAC.
FRAC == 10^PREC
MAX_UINT == MAX \div FRAC
MAX_FRAC == FRAC - 1

\* u64::ilog10
RECURSIVE ilog10(_)
ilog10(n) == IF n < 10 THEN 0 ELSE 1 + ilog10(n \div 10)

\* (a as f64 / n as f64).round() as u64: the quotient rounded to the nearest
\* integer, halves away from zero.
round_div(a, n) == (2 * a + n) \div (2 * n)

\* The fractional part Decimal::new keeps (lines 39-47).
Decimal_new_frac(frac) ==
    IF PREC = 0 THEN 0
    ELSE IF frac = FRAC THEN frac \div 10
    ELSE IF frac > FRAC THEN round_div(frac, 10^(1 + ilog10(frac) - PREC))
    ELSE frac

\* Decimal::new(uint, frac) where its two assertions hold (lines 49-52).
Decimal_new(uint, frac) == uint * FRAC + Decimal_new_frac(frac)

PanicUint == <<"panic", "assertion failed: uint <= Self::MAX_UINT">>
PanicFrac == <<"panic", "assertion failed: frac <= Self::MAX_FRAC">>

\* Decimal::new(uint, frac), with its assertions and the addition of line 52.
Decimal_try_new(uint, frac) ==
    LET fr == Decimal_new_frac(frac)
    IN IF uint > MAX_UINT THEN [value |-> 0, panic |-> PanicUint]
       ELSE IF fr > MAX_FRAC THEN [value |-> 0, panic |-> PanicFrac]
       ELSE add_assign(uint * FRAC, fr)

----------------------------------------------------------------------------
\* num.rs: FromStr for Decimal. A text is a sequence of characters.

DigitChars == <<"0", "1", "2", "3", "4", "5", "6", "7", "8", "9">>
IsDigit(c) == \E d \in 1..10 : DigitChars[d] = c
digit(c) == (CHOOSE d \in 1..10 : DigitChars[d] = c) - 1

\* The number a sequence of digits writes.
RECURSIVE number(_)
number(s) ==
    IF s = <<>> THEN 0
    ELSE 10 * number(SubSeq(s, 1, Len(s) - 1)) + digit(s[Len(s)])

ParseIntError == <<"Err", "ParseIntError">>

\* str::parse::<u64>(): an error for the empty text, a character that is
\* not a digit, or a number above u64::MAX.
parse(s) ==
    IF s = <<>> \/ (\E i \in 1..Len(s) : ~IsDigit(s[i])) THEN [ok |-> FALSE, value |-> 0]
    ELSE IF number(s) > MAX THEN [ok |-> FALSE, value |-> 0]
    ELSE [ok |-> TRUE, value |-> number(s)]

\* str::trim_end_matches('0')
RECURSIVE trim_end_matches_0(_)
trim_end_matches_0(s) ==
    IF s # <<>> /\ s[Len(s)] = "0"
    THEN trim_end_matches_0(SubSeq(s, 1, Len(s) - 1))
    ELSE s

\* The position of the first '.' of s, or 0 (str::split_once).
split_once(s) ==
    IF \E i \in 1..Len(s) : s[i] = "."
    THEN CHOOSE i \in 1..Len(s) : s[i] = "." /\ \A j \in 1..(i - 1) : s[j] # "."
    ELSE 0

\* Ok(Self::new(uint, frac)) once both parts parsed (the `?` of lines
\* 106-113, then line 116).
from_parts(u, f) ==
    IF ~u.ok \/ ~f.ok THEN ParseIntError
    ELSE LET d == Decimal_try_new(u.value, f.value)
         IN IF d.panic # NoPanic THEN d.panic ELSE <<"Ok", d.value>>

\* A parsed number mapped by a function of its value.
map_parsed(r, value) == IF r.ok THEN [ok |-> TRUE, value |-> value] ELSE r

\* Decimal::from_str(s)
from_str(s) ==
    LET i == split_once(s)
    IN IF i = 0 THEN from_parts(parse(s), [ok |-> TRUE, value |-> 0])
       ELSE LET u == SubSeq(s, 1, i - 1)
                f == trim_end_matches_0(SubSeq(s, i + 1, Len(s)))
            IN IF f = <<>> THEN from_parts(parse(u), [ok |-> TRUE, value |-> 0])
               ELSE IF Len(f) < PREC
               THEN from_parts(parse(u),
                        map_parsed(parse(f), parse(f).value * 10^(PREC - Len(f))))
               ELSE IF Len(f) > PREC /\ f[1] = "0"
               THEN LET g == parse(SubSeq(f, 1, PREC + 1))
                    IN from_parts(parse(u), map_parsed(g, round_div(g.value, 10)))
               ELSE from_parts(parse(u), parse(f))

----------------------------------------------------------------------------
\* The mutators of AccountStatus that dispute_transaction calls. Their bodies
\* are not among the sources; they follow section 4.B of the specification
\* and the values test_dispute_transaction_resolve and
\* test_dispute_transaction_chargeback expect.

\* hold(a): held <- held + a
hold(account_status, amount) ==
    LET h == add_assign(account_status.held, amount)
    IN IF h.panic # NoPanic
       THEN Aborted(account_status, h.panic)
       ELSE Done([account_status EXCEPT !.held = h.value])

\* release(a): available <- available + a; held <- held - a
release(account_status, amount) ==
    LET a == add_assign(account_status.available, amount)
        h == sub_assign(account_status.held, amount)
    IN IF a.panic # NoPanic THEN Aborted(account_status, a.panic)
       ELSE IF h.panic # NoPanic THEN Aborted(account_status, h.panic)
       ELSE Done([account_status EXCEPT !.available = a.value, !.held = h.value])

\* lock(a): held <- held - a; locked <- true
lock(account_status, amount) ==
    LET h == sub_assign(account_status.held, amount)
    IN IF h.panic # NoPanic
       THEN Aborted(account_status, h.panic)
       ELSE Done([account_status EXCEPT !.held = h.value, !.locked = TRUE])

----------------------------------------------------------------------------
\* process.rs: the journal.

len(map) == Cardinality(DOMAIN map)
remove(map, key) == [k \in DOMAIN map \ {key} |-> map[k]]
insert(map, key, value) == [k \in DOMAIN map \cup {key} |-> IF k = key THEN value ELSE map[k]]
\* A variant of min that yields the largest key.
min_largest(keys) == CHOOSE k \in keys : \A j \in keys : k >= j

min(keys) == CHOOSE k \in keys : \A j \in keys : k <= j

\* A variant of the retain that drops the resolved entries only.
retain_not_resolved(map) ==
    [k \in {j \in DOMAIN map : map[j].type # Resolve} |-> map[k]]

\* transactions.retain(|_, TransactionStatus(status, _)| !matches!(status, Resolve | Chargeback))
retain_not_ended(map) ==
    [k \in {j \in DOMAIN map : map[j].type \notin {Resolve, Chargeback}} |-> map[k]]

\* A variant of the loop that removes one entry at most.
remove_min_once(map, max_capacity) ==
    IF len(map) >= max_capacity THEN remove(map, min(DOMAIN map)) ELSE map

\* A variant of the loop that starts to remove only above max_capacity.
RECURSIVE remove_min_while_over(_, _)
remove_min_while_over(map, max_capacity) ==
    IF len(map) > max_capacity
    THEN remove_min_while_over(remove(map, min(DOMAIN map)), max_capacity)
    ELSE map

\* while transactions.len() >= max_capacity { remove the minimum key }
RECURSIVE remove_min_while_full(_, _)
remove_min_while_full(map, max_capacity) ==
    IF len(map) >= max_capacity
    THEN remove_min_while_full(remove(map, min(DOMAIN map)), max_capacity)
    ELSE map

rollout_transactions(map, rollout_threshold, max_capacity) ==
    remove_min_while_full(
        IF len(map) >= rollout_threshold THEN retain_not_ended(map) ELSE map,
        max_capacity)

----------------------------------------------------------------------------
\* process.rs: the handlers. Each returns the journal and the account status
\* it leaves behind, and the value it returns (or the panic that aborts it).

Outcome(map, account_status, res) ==
    [transactions |-> map, account_status |-> account_status, result |-> res]

\* Lines 129-133: roll out, insert, Ok.
register_commit(map, tx, t, amount, account_status) ==
    Outcome(
        insert(rollout_transactions(map, ROLLOUT_TRANSACTION_THRESHOLD, MAX_TRANSACTION_CAPACITY),
               tx, TransactionStatus(t, amount)),
        account_status, Ok)

\* What an arm of the match of lines 105-127 leaves: the account status, and
\* Ok or the error it returns early with.
Arm(account_status, res) == [account_status |-> account_status, result |-> res]

\* A variant of the Deposit arm that refuses a deposit that brings available
\* to MAX exactly.
deposit_arm_below_max(txn, account_status) ==
    IF txn.amount = None
    THEN Arm(account_status, MissingAmount(txn.tx))
    ELSE LET amount == unwrap(txn.amount)
         IN IF Decimal_sub(MAX, account_status.available) <= amount
            THEN Arm(account_status, TooManyFunds(txn.tx, txn.client))
            ELSE LET a == add_assign(account_status.available, amount)
                 IN IF a.panic # NoPanic
                    THEN Arm(account_status, a.panic)
                    ELSE Arm([account_status EXCEPT !.available = a.value], Ok)

\* Lines 106-115: the Deposit arm.
deposit_arm(txn, account_status) ==
    IF txn.amount = None
    THEN Arm(account_status, MissingAmount(txn.tx))
    ELSE LET amount == unwrap(txn.amount)
         IN IF Decimal_sub(MAX, account_status.available) < amount
            THEN Arm(account_status, TooManyFunds(txn.tx, txn.client))
            ELSE LET a == add_assign(account_status.available, amount)
                 IN IF a.panic # NoPanic
                    THEN Arm(account_status, a.panic)
                    ELSE Arm([account_status EXCEPT !.available = a.value], Ok)

\* A variant of the Withdrawal arm that reports a record without amount as
\* NotEnoughFunds.
withdrawal_arm_funds_only(txn, account_status) ==
    IF txn.amount = None
    THEN Arm(account_status, NotEnoughFunds(txn.tx, txn.client))
    ELSE LET amount == unwrap(txn.amount)
         IN IF account_status.available < amount
            THEN Arm(account_status, NotEnoughFunds(txn.tx, txn.client))
            ELSE LET a == sub_assign(account_status.available, amount)
                 IN IF a.panic # NoPanic
                    THEN Arm(account_status, a.panic)
                    ELSE Arm([account_status EXCEPT !.available = a.value], Ok)

\* A variant of the Withdrawal arm that refuses a withdrawal of the whole of
\* available.
withdrawal_arm_keep_some(txn, account_status) ==
    IF txn.amount = None
    THEN Arm(account_status, MissingAmount(txn.tx))
    ELSE LET amount == unwrap(txn.amount)
         IN IF account_status.available <= amount
            THEN Arm(account_status, NotEnoughFunds(txn.tx, txn.client))
            ELSE LET a == sub_assign(account_status.available, amount)
                 IN IF a.panic # NoPanic
                    THEN Arm(account_status, a.panic)
                    ELSE Arm([account_status EXCEPT !.available = a.value], Ok)

\* Lines 116-125: the Withdrawal arm.
withdrawal_arm(txn, account_status) ==
    IF txn.amount = None
    THEN Arm(account_status, MissingAmount(txn.tx))
    ELSE LET amount == unwrap(txn.amount)
         IN IF account_status.available < amount
            THEN Arm(account_status, NotEnoughFunds(txn.tx, txn.client))
            ELSE LET a == sub_assign(account_status.available, amount)
                 IN IF a.panic # NoPanic
                    THEN Arm(account_status, a.panic)
                    ELSE Arm([account_status EXCEPT !.available = a.value], Ok)

\* Lines 105-127: the match on the record's kind.
register_match(txn, account_status) ==
    CASE txn.type = Deposit -> deposit_arm(txn, account_status)
      [] txn.type = Withdrawal -> withdrawal_arm(txn, account_status)
      [] OTHER -> Arm(account_status, OperationNotSupported(txn.tx, None, txn.type))

\* A variant of register_transaction that runs the match (the amount and
\* balance checks, the credit or debit) before the duplicate check.
register_transaction_match_first(map, txn, account_status) ==
    LET m == register_match(txn, account_status)
    IN IF m.result # Ok
       THEN Outcome(map, m.account_status, m.result)
       ELSE IF txn.tx \in DOMAIN map
       THEN Outcome(map, m.account_status, TransactionAlreadyExists(txn.tx))
       ELSE register_commit(map, txn.tx, txn.type, unwrap(txn.amount), m.account_status)

\* A variant of register_transaction that replaces the entry of a known id
\* instead of rejecting the record.
register_transaction_overwrite(map, txn, account_status) ==
    LET m == register_match(txn, account_status)
    IN IF m.result # Ok
       THEN Outcome(map, m.account_status, m.result)
       ELSE register_commit(map, txn.tx, txn.type, unwrap(txn.amount), m.account_status)

register_transaction(map, txn, account_status) ==
    IF txn.tx \in DOMAIN map
    THEN Outcome(map, account_status, TransactionAlreadyExists(txn.tx))
    ELSE LET m == register_match(txn, account_status)
         IN IF m.result # Ok
            THEN Outcome(map, m.account_status, m.result)
            ELSE register_commit(map, txn.tx, txn.type, unwrap(txn.amount), m.account_status)

\* A variant of Supported that also lets a Deposit enter dispute.
Supported_deposits_too(transaction_type, t) ==
    \/ transaction_type = Dispute /\ t \in {Deposit, Withdrawal}
    \/ transaction_type = Resolve /\ t = Dispute
    \/ transaction_type = Chargeback /\ t = Dispute

\* A variant of Supported that lets a Chargeback apply to a Withdrawal that
\* is not under dispute.
Supported_chargeback_at_once(transaction_type, t) ==
    \/ transaction_type = Dispute /\ t = Withdrawal
    \/ transaction_type = Resolve /\ t = Dispute
    \/ transaction_type = Chargeback /\ t \in {Withdrawal, Dispute}

\* Lines 148-153: the arms of the match on the incoming kind, guarded by the
\* stored kind t.
Supported(transaction_type, t) ==
    \/ transaction_type = Dispute /\ t = Withdrawal
    \/ transaction_type = Resolve /\ t = Dispute
    \/ transaction_type = Chargeback /\ t = Dispute

\* A variant of Effect with the mutators of the Resolve and Chargeback arms
\* exchanged.
Effect_exchanged(transaction_type, account_status, amount) ==
    CASE transaction_type = Dispute -> hold(account_status, amount)
      [] transaction_type = Resolve -> lock(account_status, amount)
      [] transaction_type = Chargeback -> release(account_status, amount)

\* The mutator the matching arm calls.
Effect(transaction_type, account_status, amount) ==
    CASE transaction_type = Dispute -> hold(account_status, amount)
      [] transaction_type = Resolve -> release(account_status, amount)
      [] transaction_type = Chargeback -> lock(account_status, amount)

\* A variant of dispute_transaction that assigns the incoming kind to the
\* entry before the match instead of after it.
dispute_transaction_assign_first(map, transaction_id, transaction_type, account_status) ==
    IF transaction_id \notin DOMAIN map
    THEN Outcome(map, account_status, TransactionNotFound(transaction_id))
    ELSE LET t == map[transaction_id].type
             amount == map[transaction_id].amount
             assigned == [map EXCEPT ![transaction_id].type = transaction_type]
         IN IF ~Supported(transaction_type, t)
            THEN Outcome(assigned, account_status,
                     OperationNotSupported(transaction_id, Some(t), transaction_type))
            ELSE LET e == Effect(transaction_type, account_status, amount)
                 IN IF e.panic # NoPanic
                    THEN Outcome(map, account_status, e.panic)
                    ELSE Outcome(assigned, e.status, Ok)

\* A variant of dispute_transaction that removes the entry of a dispute it
\* ends (Resolve, Chargeback) instead of keeping it until the next rollout.
dispute_transaction_drop_ended(map, transaction_id, transaction_type, account_status) ==
    IF transaction_id \notin DOMAIN map
    THEN Outcome(map, account_status, TransactionNotFound(transaction_id))
    ELSE LET t == map[transaction_id].type
             amount == map[transaction_id].amount
         IN IF ~Supported(transaction_type, t)
            THEN Outcome(map, account_status,
                     OperationNotSupported(transaction_id, Some(t), transaction_type))
            ELSE LET e == Effect(transaction_type, account_status, amount)
                 IN IF e.panic # NoPanic
                    THEN Outcome(map, account_status, e.panic)
                    ELSE IF transaction_type = Dispute
                    THEN Outcome([map EXCEPT ![transaction_id].type = transaction_type],
                                 e.status, Ok)
                    ELSE Outcome(remove(map, transaction_id), e.status, Ok)

\* A variant of dispute_transaction that accepts a record whose id is not in
\* the journal, doing nothing.
dispute_transaction_lenient(map, transaction_id, transaction_type, account_status) ==
    IF transaction_id \notin DOMAIN map
    THEN Outcome(map, account_status, Ok)
    ELSE LET t == map[transaction_id].type
             amount == map[transaction_id].amount
         IN IF ~Supported(transaction_type, t)
            THEN Outcome(map, account_status,
                     OperationNotSupported(transaction_id, Some(t), transaction_type))
            ELSE LET e == Effect(transaction_type, account_status, amount)
                 IN IF e.panic # NoPanic
                    THEN Outcome(map, account_status, e.panic)
                    ELSE Outcome([map EXCEPT ![transaction_id].type = transaction_type],
                                 e.status, Ok)

dispute_transaction(map, transaction_id, transaction_type, account_status) ==
    IF transaction_id \notin DOMAIN map
    THEN Outcome(map, account_status, TransactionNotFound(transaction_id))
    ELSE LET t == map[transaction_id].type
             amount == map[transaction_id].amount
         IN IF ~Supported(transaction_type, t)
            THEN Outcome(map, account_status,
                     OperationNotSupported(transaction_id, Some(t), transaction_type))
            ELSE LET e == Effect(transaction_type, account_status, amount)
                 IN IF e.panic # NoPanic
                    THEN Outcome(map, account_status, e.panic)
                    ELSE Outcome([map EXCEPT ![transaction_id].type = transaction_type],
                                 e.status, Ok)

\* self.accounts.entry(client).or_default()
or_default(book, client) ==
    IF client \in DOMAIN book
    THEN book
    ELSE [c \in DOMAIN book \cup {client} |->
             IF c = client THEN AccountStatus_default ELSE book[c]]

\* A Processor value.
Processor(book, map) == [accounts |-> book, transactions |-> map]
Processor_default == Processor(<<>>, <<>>)

\* Lines 85-90: the dispatch on the record's kind.
dispatch(map, txn, account_status) ==
    IF txn.type \in {Deposit, Withdrawal}
    THEN register_transaction(map, txn, account_status)
    ELSE dispute_transaction(map, txn.tx, txn.type, account_status)

\* A variant of process_transaction that writes the locked flag it leaves to
\* every account of the book.
process_transaction_lock_all(self, txn) ==
    LET book == or_default(self.accounts, txn.client)
        account_status == book[txn.client]
    IN IF account_status.locked
       THEN [accounts |-> book, transactions |-> self.transactions,
             result |-> AccountLocked(txn.tx, txn.client)]
       ELSE LET o == dispatch(self.transactions, txn, account_status)
            IN [accounts |->
                   [c \in DOMAIN book |->
                       IF c = txn.client THEN o.account_status
                       ELSE [book[c] EXCEPT !.locked = o.account_status.locked]],
                transactions |-> o.transactions,
                result |-> o.result]

\* A variant of process_transaction without the check of the locked flag.
process_transaction_unchecked(self, txn) ==
    LET book == or_default(self.accounts, txn.client)
        account_status == book[txn.client]
        o == dispatch(self.transactions, txn, account_status)
    IN [accounts |-> [book EXCEPT ![txn.client] = o.account_status],
        transactions |-> o.transactions,
        result |-> o.result]

\* A variant of process_transaction that looks the referenced id up in the
\* journal before it checks the locked flag.
process_transaction_lookup_first(self, txn) ==
    LET book == or_default(self.accounts, txn.client)
        account_status == book[txn.client]
    IN IF txn.type \notin {Deposit, Withdrawal} /\ txn.tx \notin DOMAIN self.transactions
       THEN [accounts |-> book, transactions |-> self.transactions,
             result |-> TransactionNotFound(txn.tx)]
       ELSE IF account_status.locked
       THEN [accounts |-> book, transactions |-> self.transactions,
             result |-> AccountLocked(txn.tx, txn.client)]
       ELSE LET o == dispatch(self.transactions, txn, account_status)
            IN [accounts |-> [book EXCEPT ![txn.client] = o.account_status],
                transactions |-> o.transactions,
                result |-> o.result]

\* process_transaction(&mut self, transaction): the Processor it leaves and
\* the value it returns.
process_transaction(self, txn) ==
    LET book == or_default(self.accounts, txn.client)
        account_status == book[txn.client]
    IN IF account_status.locked
       THEN [accounts |-> book, transactions |-> self.transactions,
             result |-> AccountLocked(txn.tx, txn.client)]
       ELSE LET o == dispatch(self.transactions, txn, account_status)
            IN [accounts |-> [book EXCEPT ![txn.client] = o.account_status],
                transactions |-> o.transactions,
                result |-> o.result]

----------------------------------------------------------------------------
\* lib.rs: the emitted record.

\* AccountStatus::total(): available + held (ops::Add of num.rs).
total(account_status) == add_assign(account_status.available, account_status.held)

\* From<Account> for AccountRecord, for the account (client, status).
AccountRecord(client, account_status) ==
    [client |-> client,
     available |-> account_status.available,
     held |-> account_status.held,
     total |-> total(account_status).value,
     locked |-> account_status.locked]

\* The records of a whole account book.
AccountRecords(book) == {AccountRecord(c, book[c]) : c \in DOMAIN book}

----------------------------------------------------------------------------
\* process.rs Processor::process and io.rs process: the driver.

NoTransaction == Transaction_new("None", 0, 0, None)
NoResult == <<"None">>

\* One turn of the try_fold closure on the record txn: process_transaction,
\* whose error is logged and dropped. A panic ends the program.
Step(txn) ==
    LET r == process_transaction(Processor(accounts, transactions), txn)
    IN /\ transaction' = txn
       /\ before' = or_default(accounts, txn.client)[txn.client]
       /\ result' = r.result
       /\ IF IsPanic(r.result)
          THEN /\ pc' = "panicked"
               /\ UNCHANGED <<accounts, transactions, filtered, evicted, seen, owner,
                               disputant>>
          ELSE /\ pc' = pc
               /\ accounts' = r.accounts
               /\ transactions' = r.transactions
               /\ filtered' =
                    IF r.result = Ok
                    THEN LET f == process_transaction(filtered, txn)
                         IN Processor(f.accounts, f.transactions)
                    ELSE filtered
               /\ evicted' = evicted \cup (DOMAIN transactions \ DOMAIN r.transactions)
               /\ seen' = seen \cup {txn.client}
               /\ owner' =
                    IF r.result = Ok /\ txn.type \in {Deposit, Withdrawal}
                    THEN insert(owner, txn.tx, txn.client)
                    ELSE owner
               /\ disputant' =
                    IF r.result = Ok /\ txn.type = Dispute
                    THEN insert(disputant, txn.tx, txn.client)
                    ELSE disputant
       /\ UNCHANGED <<overflow_checks, written, stream, rollout, text, parsed>>

\* The stream yields Ok(record): the next record of the part fixed in advance.
FoldInput ==
    /\ pc = "fold"
    /\ read < Len(stream)
    /\ Step(stream[read + 1])
    /\ read' = read + 1
    /\ count' = count

\* The stream yields Ok(record): any record.
Fold ==
    /\ pc = "fold"
    /\ read = Len(stream)
    /\ count < MaxRecords
    /\ \E txn \in Transaction : Step(txn)
    /\ read' = read
    /\ count' = count + 1

\* A variant of the driver that emits the accounts folded so far before it
\* ends with the error of the stream.
FramingError_after_accounts ==
    /\ pc = "fold"
    /\ read = Len(stream)
    /\ pc' = "failed"
    /\ transaction' = NoTransaction
    /\ before' = AccountStatus_default
    /\ result' = NoResult
    /\ written' = AccountRecords(accounts)
    /\ UNCHANGED <<accounts, transactions, overflow_checks, stream, read,
                   count, filtered, evicted, seen, owner, disputant,
                   rollout, text, parsed>>

\* The stream yields Err: try_fold stops and the error is the only item.
FramingError ==
    /\ pc = "fold"
    /\ read = Len(stream)
    /\ pc' = "failed"
    /\ transaction' = NoTransaction
    /\ before' = AccountStatus_default
    /\ result' = NoResult
    /\ UNCHANGED <<accounts, transactions, overflow_checks, written, stream, read,
                   count, filtered, evicted, seen, owner, disputant,
                   rollout, text, parsed>>

\* The stream ends: the fold yields the Processor, whose accounts are emitted.
EndOfInput ==
    /\ pc = "fold"
    /\ read = Len(stream)
    /\ pc' = "emit"
    /\ transaction' = NoTransaction
    /\ before' = AccountStatus_default
    /\ result' = NoResult
    /\ UNCHANGED <<accounts, transactions, overflow_checks, written, stream, read,
                   count, filtered, evicted, seen, owner, disputant,
                   rollout, text, parsed>>

\* The accounts not yet emitted (the map's iteration order is unspecified).
Pending == {c \in DOMAIN accounts : \A r \in written : r.client # c}

\* io.rs: writer.serialize(record) for the next account of the stream.
EmitAccount ==
    /\ pc = "emit"
    /\ \E c \in Pending :
          IF total(accounts[c]).panic # NoPanic
          THEN pc' = "panicked" /\ written' = written
          ELSE pc' = pc /\ written' = written \cup {AccountRecord(c, accounts[c])}
    /\ UNCHANGED <<accounts, transactions, overflow_checks, transaction, before,
                   result, stream, read, count, filtered, evicted, seen,
                   owner, disputant, rollout, text, parsed>>

\* io.rs: the stream is exhausted; writer.flush().
Flush ==
    /\ pc = "emit"
    /\ Pending = {}
    /\ pc' = "done"
    /\ UNCHANGED <<accounts, transactions, overflow_checks, transaction, before,
                   result, written, stream, read, count, filtered, evicted,
                   seen, owner, disputant,
                   rollout, text, parsed>>

InitCommon ==
    /\ accounts = <<>>
    /\ transactions = <<>>
    /\ overflow_checks \in BOOLEAN
    /\ pc = "fold"
    /\ transaction = NoTransaction
    /\ before = AccountStatus_default
    /\ result = NoResult
    /\ written = {}
    /\ read = 0
    /\ count = 0
    /\ filtered = Processor_default
    /\ evicted = {}
    /\ seen = {}
    /\ owner = <<>>
    /\ disputant = <<>>

\* The streams of Spec start with nothing, or with the records the dispute
\* tests of process.rs start from (a deposit, then a withdrawal it covers, of
\* client 1), or with those followed by the dispute and the chargeback of the
\* withdrawal (test_process_transaction), or by its dispute, its resolve
\* (test_dispute_transaction_resolve) and a second withdrawal, whose
\* registration rolls the resolved one out; they go on with any MaxRecords
\* records.
Registered(c, d, w) ==
    <<Transaction_new(Deposit, c, 1, Some(d)), Transaction_new(Withdrawal, c, 2, Some(w))>>

ChargedBack(c, d, w) ==
    Registered(c, d, w) \o
    <<Transaction_new(Dispute, c, 2, None), Transaction_new(Chargeback, c, 2, None)>>

RolledOut(c, d, w) ==
    Registered(c, d, w) \o
    <<Transaction_new(Dispute, c, 2, None), Transaction_new(Resolve, c, 2, None),
      Transaction_new(Withdrawal, c, 3, Some(w))>>

Covered == {p \in Amounts \X Amounts : p[2] <= p[1]}

Prefixes ==
    {<<>>}
    \cup {Registered(1, p[1], p[2]) : p \in Covered}
    \cup {ChargedBack(1, p[1], p[2]) : p \in Covered}
    \cup {RolledOut(1, p[1], p[2]) : p \in Covered}

\* The stream of test_process_ok (io.rs:62-80); "5.1" parses to
\* Decimal::new(5, 1000), and so on.
SampleStream ==
    << Transaction_new(Deposit, 1, 1, Some(Decimal_new(5, 1000))),
       Transaction_new(Deposit, 1, 2, Some(Decimal_new(0, 2000))),
       Transaction_new(Deposit, 1, 3, Some(Decimal_new(1, 0))),
       Transaction_new(Withdrawal, 1, 4, Some(Decimal_new(4, 2000))),
       Transaction_new(Dispute, 1, 2, None),
       Transaction_new(Resolve, 1, 2, None),
       Transaction_new(Dispute, 1, 3, None),
       Transaction_new(Chargeback, 1, 3, None) >>

\* The records of seq at the positions in keep, in order.
RECURSIVE Select(_, _, _)
Select(seq, keep, i) ==
    IF i > Len(seq) THEN <<>>
    ELSE (IF i \in keep THEN <<seq[i]>> ELSE <<>>) \o Select(seq, keep, i + 1)

\* The sample stream and every stream left of it when records are dropped.
SampleStreams == {Select(SampleStream, keep, 1) : keep \in SUBSET (1..Len(SampleStream))}

\* No text is parsed by the driver's specifications: their records carry
\* amounts already parsed.
NoText == <<"None">>
\* Nor is rollout_transactions called on its own.
NoCall ==
    [transactions |-> <<>>, rollout_threshold |-> 0, max_capacity |-> 0,
     status |-> "none", retained |-> <<>>, returned |-> <<>>]
NotParsed == <<"None">>

Init ==
    InitCommon /\ stream \in Prefixes /\ text = NoText /\ parsed = NotParsed /\ rollout = NoCall

Next == FoldInput \/ Fold \/ FramingError \/ EndOfInput \/ EmitAccount \/ Flush

Spec == Init /\ [][Next]_vars

\* The driver on the sample stream or a part of it, read to its end.
InitSample ==
    /\ InitCommon /\ stream \in SampleStreams
    /\ text = NoText /\ parsed = NotParsed /\ rollout = NoCall

NextSample == FoldInput \/ EndOfInput \/ EmitAccount \/ Flush

SpecSample == InitSample /\ [][NextSample]_vars

\* The texts to parse: an integer part, alone or followed by '.' and a
\* fractional part.
UintChars == {"0", "1", "3", "x"}
FracChars == {"0", "4", "5", "9", "x"}
Strings(chars, n) == UNION {[1..k -> chars] : k \in 0..n}
Texts ==
    {u \o t : u \in Strings(UintChars, MaxUintLen),
              t \in {<<>>} \cup {<<".">> \o f : f \in Strings(FracChars, MaxFracLen)}}

\* The deserializer of a record parses the text of its amount; a panic ends
\* the program.
FromStr ==
    /\ text # NoText
    /\ parsed = NotParsed
    /\ parsed' = from_str(text)
    /\ pc' = IF IsPanic(parsed') THEN "panicked" ELSE pc
    /\ UNCHANGED <<accounts, transactions, overflow_checks, transaction, before, result,
                   written, stream, read, count, filtered, evicted, seen,
                   owner, disputant, rollout, text>>

InitParse ==
    InitCommon /\ stream = <<>> /\ text \in Texts /\ parsed = NotParsed /\ rollout = NoCall

NextParse == FromStr

SpecParse == InitParse /\ [][NextParse]_vars

\* The journals and thresholds rollout_transactions is called with on its
\* own, as in test_rollout_transactions: any entries under any ids, and
\* thresholds from 0 to one above the number of ids.
Journals ==
    UNION {[ids -> {TransactionStatus(t, 1) : t \in TransactionType}] :
              ids \in SUBSET TransactionID}
Thresholds == 0..(MaxTx + 1)

Call(map, rollout_threshold, max_capacity) ==
    [transactions |-> map, rollout_threshold |-> rollout_threshold,
     max_capacity |-> max_capacity, status |-> "called", retained |-> map, returned |-> map]

\* rollout_transactions(&mut transactions, rollout_threshold, max_capacity):
\* the assertion of line 167, the retain of lines 169-173 (whose result the
\* call record keeps) and the loop of lines 174-180.
Rollout ==
    /\ rollout.status = "called"
    /\ IF ~(rollout.max_capacity > 0)
       THEN /\ rollout' = [rollout EXCEPT !.status = "panicked"]
            /\ pc' = "panicked"
       ELSE /\ rollout' =
                 [rollout EXCEPT
                    !.status = "returned",
                    !.retained =
                        IF len(rollout.transactions) >= rollout.rollout_threshold
                        THEN retain_not_ended(rollout.transactions)
                        ELSE rollout.transactions,
                    !.returned =
                        rollout_transactions(rollout.transactions, rollout.rollout_threshold,
                                             rollout.max_capacity)]
            /\ pc' = pc
    /\ UNCHANGED <<accounts, transactions, overflow_checks, transaction, before, result,
                   written, stream, read, count, filtered, evicted, seen,
                   owner, disputant, text, parsed>>

InitRollout ==
    /\ InitCommon /\ stream = <<>> /\ text = NoText /\ parsed = NotParsed
    /\ rollout \in {Call(map, r, m) : map \in Journals, r \in Thresholds, m \in Thresholds}

NextRollout == Rollout

SpecRollout == InitRollout /\ [][NextRollout]_vars

----------------------------------------------------------------------------
\* The properties.

\* A step in which the fold closure ran process_transaction on a record.
Processed == read' = read + 1 \/ count' = count + 1

\* The client and the id of the record of the step.
Called(kinds) == Processed /\ transaction'.type \in kinds

\* C1 (as stated): process_transaction returns Ok with the record's entry in
\* the journal under the record's kind, or returns an error and leaves the
\* account book (its set of clients included) and the journal as they were.
C1_AtomicPerRecord ==
    [][Processed =>
         /\ result' = Ok =>
               /\ transaction'.tx \in DOMAIN transactions'
               /\ transactions'[transaction'.tx].type = transaction'.type
         /\ IsErr(result') => accounts' = accounts /\ transactions' = transactions]_vars

\* C1 (amended): as C1, but on an error the account book may gain the
\* record's client, with the default status, when the client was not in it;
\* every account that existed and the journal are as they were.
C1_AtomicButForNewAccount ==
    [][Processed =>
         /\ result' = Ok =>
               /\ transaction'.tx \in DOMAIN transactions'
               /\ transactions'[transaction'.tx].type = transaction'.type
         /\ IsErr(result') =>
               /\ transactions' = transactions
               /\ DOMAIN accounts' = DOMAIN accounts \cup {transaction'.client}
               /\ \A c \in DOMAIN accounts : accounts'[c] = accounts[c]
               /\ transaction'.client \notin DOMAIN accounts =>
                     accounts'[transaction'.client] = AccountStatus_default]_vars

\* A record of a client never seen before has failed, and the client is in
\* the account book.
C1_Witness ==
    /\ pc = "fold"
    /\ stream = <<>>
    /\ count = 1
    /\ IsErr(result)
    /\ DOMAIN accounts = {transaction.client}
    /\ accounts[transaction.client] = AccountStatus_default

\* C2: no applied record subtracts from available or held more than the
\* field holds (available >= 0 and held >= 0 after every record).
C2_NeverBelowZero ==
    [][Processed =>
         /\ result' # PanicSub
         /\ (result' = Ok /\ transaction'.type = Withdrawal) =>
               before'.available >= unwrap(transaction'.amount)
         /\ (result' = Ok /\ transaction'.type \in {Resolve, Chargeback}) =>
               before'.held >= transactions[transaction'.tx].amount]_vars

\* C3: every account has available + held <= Amount::MAX after every record,
\* and no addition overflows.
C3_TotalWithinMax ==
    /\ result # PanicAdd
    /\ \A c \in DOMAIN accounts : accounts[c].available + accounts[c].held <= MAX

\* The step applies Resolve to the transaction and the account that the step
\* before applied Dispute to, both returning Ok; `before` is the account's
\* status when the Dispute began.
DisputeThenResolve ==
    /\ transaction.type = Dispute
    /\ result = Ok
    /\ Called({Resolve})
    /\ transaction'.tx = transaction.tx
    /\ transaction'.client = transaction.client
    /\ result' = Ok

\* C4 (as stated): Dispute(w) then Resolve(w) on the same account return
\* available and held to the values they had before the Dispute.
C4_RoundTripRestoresBoth ==
    [][DisputeThenResolve =>
         /\ accounts'[transaction'.client].held = before.held
         /\ accounts'[transaction'.client].available = before.available]_vars

\* C4 (amended): Dispute(w) then Resolve(w) on the same account return held
\* to the value it had before the Dispute and leave available raised by the
\* amount of w (in the arithmetic of the amount's width).
C4_RoundTripRestoresHeld ==
    [][DisputeThenResolve =>
         /\ accounts'[transaction'.client].held = before.held
         /\ accounts'[transaction'.client].available =
               wrapping_add(before.available, transactions[transaction'.tx].amount)]_vars

\* A Resolve has just returned Ok on an account whose held it brought back
\* to zero while available is the whole deposit again.
C4_Witness ==
    /\ transaction.type = Resolve
    /\ result = Ok
    /\ pc = "fold"
    /\ before.held = transactions[transaction.tx].amount
    /\ accounts[transaction.client].held = 0
    /\ accounts[transaction.client].available = MAX

\* C5: once an account is locked, no step changes its available, held or
\* locked, or removes it.
C5_LockedIsTerminal ==
    [][\A c \in DOMAIN accounts :
          accounts[c].locked => c \in DOMAIN accounts' /\ accounts'[c] = accounts[c]]_vars

\* An account is locked and a record of another client has since been
\* applied with Ok.
C5_Witness ==
    \E c \in DOMAIN accounts :
        /\ accounts[c].locked
        /\ transaction \in Transaction
        /\ transaction.client # c
        /\ result = Ok
        /\ count > 0

\* C6: a record of any kind addressed to a locked client returns
\* AccountLocked(tx, client).
C6_LockedRejectsEveryRecord ==
    [][(/\ Processed
        /\ transaction'.client \in DOMAIN accounts
        /\ accounts[transaction'.client].locked)
       => result' = AccountLocked(transaction'.tx, transaction'.client)]_vars

\* A Dispute without amount for an id that is not in the journal has
\* returned AccountLocked.
C6_Witness ==
    /\ transaction.type = Dispute
    /\ transaction.tx \notin DOMAIN transactions
    /\ result = AccountLocked(transaction.tx, transaction.client)

\* The transition table of the specification: incoming kind, stored kind.
TransitionTable == {<<Dispute, Withdrawal>>, <<Resolve, Dispute>>, <<Chargeback, Dispute>>}

\* The step applies a Dispute, Resolve or Chargeback record whose id is in
\* the journal.
Referencing ==
    /\ Called({Dispute, Resolve, Chargeback})
    /\ transaction'.tx \in DOMAIN transactions

\* The step leaves the account of its record and the kind stored for its id
\* as they were.
StatusAndKindKept ==
    /\ accounts'[transaction'.client] = before'
    /\ transaction'.tx \in DOMAIN transactions'
    /\ transactions'[transaction'.tx].type = transactions[transaction'.tx].type

C8_SkippedLeaveNoTrace ==
    pc = "done" => written = AccountRecords(filtered.accounts)

\* C8 (amended): every record emitted for the stream without the failed
\* records is emitted unchanged, and every other emitted record is the
\* default account of a client that only failed records mention.
C8_SkippedLeaveDefaultAccounts ==
    pc = "done" =>
        /\ AccountRecords(filtered.accounts) \subseteq written
        /\ \A r \in written \ AccountRecords(filtered.accounts) :
              /\ r.client \notin DOMAIN filtered.accounts
              /\ r = AccountRecord(r.client, AccountStatus_default)

\* The run has ended after a failed record of a client nothing else
\* mentions, next to an account with funds.
C8_Witness ==
    /\ pc = "done"
    /\ \E r \in written : r.client \notin DOMAIN filtered.accounts
    /\ \E r \in written : r.client \in DOMAIN filtered.accounts /\ r.total > 0

\* The step applies a Deposit or Withdrawal record whose id is in the
\* journal.
Duplicate ==
    /\ Called({Deposit, Withdrawal})
    /\ transaction'.tx \in DOMAIN transactions

\* C10 (as stated): a Deposit or Withdrawal whose id is in the journal
\* returns TransactionAlreadyExists and keeps the account status and the
\* entry, with any amount or none.
C10_DuplicateRejected ==
    [][Duplicate =>
         /\ result' = TransactionAlreadyExists(transaction'.tx)
         /\ accounts'[transaction'.client] = before'
         /\ transaction'.tx \in DOMAIN transactions'
         /\ transactions'[transaction'.tx] = transactions[transaction'.tx]]_vars

\* C10 (amended): the same for a record addressed to an account that is not
\* locked.
C10_DuplicateRejectedUnlocked ==
    [][(Duplicate /\ ~before'.locked) =>
         /\ result' = TransactionAlreadyExists(transaction'.tx)
         /\ accounts'[transaction'.client] = before'
         /\ transaction'.tx \in DOMAIN transactions'
         /\ transactions'[transaction'.tx] = transactions[transaction'.tx]]_vars

\* A Deposit without amount that repeats an id has returned
\* TransactionAlreadyExists.
C10_Witness ==
    /\ transaction.type = Deposit
    /\ transaction.amount = None
    /\ ~before.locked
    /\ result = TransactionAlreadyExists(transaction.tx)

\* C9: the sample stream, processed in order, emits exactly one account
\* record: client 1, available 1.1, held 0, total 1.1, locked.
C9_SampleOutput ==
    (pc = "done" /\ stream = SampleStream) =>
        written = {[client |-> 1,
                    available |-> Decimal_new(1, 1000),
                    held |-> Decimal_new(0, 0),
                    total |-> Decimal_new(1, 1000),
                    locked |-> TRUE]}

\* C11: the journal never holds more than MAX_TRANSACTION_CAPACITY entries.
C11_JournalBounded == len(transactions) <= MAX_TRANSACTION_CAPACITY

\* The journal is full after a registration that removed the smallest id.
C11_Witness ==
    /\ len(transactions) = MAX_TRANSACTION_CAPACITY
    /\ transaction.type \in {Deposit, Withdrawal}
    /\ result = Ok
    /\ \E tx \in evicted : \A k \in DOMAIN transactions : tx < k

\* The step applies a Dispute, Resolve or Chargeback record whose id rollout
\* has removed from the journal before.
ReferencingEvicted ==
    /\ Called({Dispute, Resolve, Chargeback})
    /\ transaction'.tx \in evicted

Fresh(kind) ==
    /\ Called({kind})
    /\ transaction'.amount # None
    /\ transaction'.tx \notin DOMAIN transactions
    /\ ~before'.locked

\* C13: a deposit of a on an unlocked account with a fresh id returns Ok and
\* adds a to available (held and locked kept) when a <= MAX - available, and
\* returns TooManyFunds and keeps the account and the journal when
\* a > MAX - available.
C13_DepositBoundary ==
    [][Fresh(Deposit) =>
         LET a == unwrap(transaction'.amount)
         IN IF a <= MAX - before'.available
            THEN /\ result' = Ok
                 /\ accounts'[transaction'.client] =
                        [before' EXCEPT !.available = before'.available + a]
            ELSE /\ result' = TooManyFunds(transaction'.tx, transaction'.client)
                 /\ accounts'[transaction'.client] = before'
                 /\ transactions' = transactions]_vars

\* A deposit of exactly MAX - available has returned Ok on an account that
\* already had funds, and available is MAX.
C13_Witness ==
    /\ transaction.type = Deposit
    /\ result = Ok
    /\ before.available > 0
    /\ transaction.amount = Some(MAX - before.available)
    /\ accounts[transaction.client].available = MAX

\* C14: a withdrawal of a on an unlocked account with a fresh id returns Ok
\* and subtracts a from available (held and locked kept) when
\* a <= available, and returns NotEnoughFunds and keeps the account and the
\* journal when a > available.
C14_WithdrawalBoundary ==
    [][Fresh(Withdrawal) =>
         LET a == unwrap(transaction'.amount)
         IN IF a <= before'.available
            THEN /\ result' = Ok
                 /\ accounts'[transaction'.client] =
                        [before' EXCEPT !.available = before'.available - a]
            ELSE /\ result' = NotEnoughFunds(transaction'.tx, transaction'.client)
                 /\ accounts'[transaction'.client] = before'
                 /\ transactions' = transactions]_vars

\* A withdrawal of exactly available has returned Ok and available is zero.
C14_Witness ==
    /\ transaction.type = Withdrawal
    /\ result = Ok
    /\ transaction.amount = Some(before.available)
    /\ accounts[transaction.client].available = 0

\* C15: an account exists for exactly the clients of the records processed
\* so far (created at first mention, never removed); the emission of the
\* accounts does not abort, and at the end one record has been emitted for
\* each of these clients, with total = available + held.
C15_OneRecordPerClient ==
    /\ DOMAIN accounts = seen
    /\ ~(pc = "panicked" /\ result = NoResult)
    /\ pc = "done" =>
          /\ {r.client : r \in written} = seen
          /\ Cardinality(written) = Cardinality(seen)
          /\ \A r \in written : r.total = r.available + r.held

\* C16: no account record is written while the input is folded, and after
\* the input has yielded an error none is written and nothing more happens.
C16_NothingEmittedOnError ==
    [][/\ pc # "failed"
       /\ pc = "fold" => written = {}
       /\ pc' \in {"fold", "failed"} => written' = {}]_vars

\* The input has yielded an error after records that left an account with
\* funds, and nothing has been written.
C16_Witness ==
    /\ pc = "failed"
    /\ count > 0
    /\ \E c \in DOMAIN accounts : accounts[c].available > 0
    /\ written = {}

\* The text is digits, '.', digits, and its fractional part has more than
\* PREC digits once its trailing zeros are stripped.
IntegerPart == SubSeq(text, 1, split_once(text) - 1)
FractionalPart == trim_end_matches_0(SubSeq(text, split_once(text) + 1, Len(text)))
LongFraction ==
    /\ text # NoText
    /\ split_once(text) > 1
    /\ \A i \in 1..Len(text) : i # split_once(text) => IsDigit(text[i])
    /\ Len(FractionalPart) > PREC

\* The value of such a text rounded to PREC fractional digits, halves away
\* from zero, as the integer behind the Decimal.
Rounded ==
    number(IntegerPart) * FRAC
        + round_div(number(FractionalPart), 10^(Len(FractionalPart) - PREC))

\* C17: a text U.F whose fractional part has more than PREC digits parses to
\* its value rounded to PREC digits, halves away from zero, whenever the
\* rounded value is at most MAX (a carry into the integer part included).
C17_ParseRounds ==
    (parsed # NotParsed /\ LongFraction /\ Rounded <= MAX) => parsed = <<"Ok", Rounded>>

\* The text holds a character that is neither a digit nor '.'.
NonNumeric == \E i \in 1..Len(text) : ~IsDigit(text[i]) /\ text[i] # "."

\* The text is digits, alone or followed by '.' and digits.
Numeric ==
    /\ text # <<>>
    /\ \A i \in 1..Len(text) : IsDigit(text[i]) \/ (i = split_once(text) /\ i > 1)

WholePart == IF split_once(text) = 0 THEN text ELSE IntegerPart
Fraction == IF split_once(text) = 0 THEN <<>> ELSE SubSeq(text, split_once(text) + 1, Len(text))

\* The value of a numeric text cut after PREC fractional digits, as the
\* integer behind a Decimal, and the digits cut off.
Kept == IF Len(Fraction) < PREC THEN Len(Fraction) ELSE PREC
Truncated ==
    number(WholePart) * FRAC + number(SubSeq(Fraction, 1, Kept)) * 10^(PREC - Kept)
CutOff == number(SubSeq(Fraction, Kept + 1, Len(Fraction)))

\* The value of a numeric text is above MAX (compared without rounding).
ValueAboveMax ==
    /\ Numeric
    /\ Truncated > MAX \/ (Truncated = MAX /\ CutOff > 0)

\* C18: from_str returns Err, and does not abort, for a text that is not
\* numeric, whose integer part is above MAX_UINT, or whose value is above MAX.
C18_BadInputIsErr ==
    (/\ parsed # NotParsed
     /\ text # NoText
     /\ \/ NonNumeric
        \/ Numeric /\ number(WholePart) > MAX_UINT
        \/ ValueAboveMax)
    => parsed = ParseIntError

\* One step forward on the path Deposit|Withdrawal -> Dispute ->
\* Resolve|Chargeback: stored kind, next stored kind.
ForwardSteps ==
    {<<Deposit, Dispute>>, <<Withdrawal, Dispute>>,
     <<Dispute, Resolve>>, <<Dispute, Chargeback>>}

\* C19: every stored kind is one of the five kinds, and in every step the
\* kind of an entry that stays in the journal is unchanged or one step
\* forward on the path.
C19_KindMovesForward ==
    [][/\ \A tx \in DOMAIN transactions : transactions[tx].type \in TransactionType
       /\ \A tx \in DOMAIN transactions' : transactions'[tx].type \in TransactionType
       /\ \A tx \in DOMAIN transactions \cap DOMAIN transactions' :
             \/ transactions'[tx].type = transactions[tx].type
             \/ <<transactions[tx].type, transactions'[tx].type>> \in ForwardSteps]_vars

\* A Resolve has returned Ok and the entry it names, a Withdrawal before its
\* dispute, is stored as Resolve.
C19_Witness ==
    /\ transaction.type = Resolve
    /\ result = Ok
    /\ transaction.tx \in DOMAIN transactions
    /\ transactions[transaction.tx].type = Resolve

\* C20: a Dispute, Resolve or Chargeback record keeps the keys of the journal;
\* a key enters the journal only as the id of a Deposit or Withdrawal that
\* returns Ok, with that record's amount; and no step changes the amount of
\* an entry that stays in the journal.
C20_AmountsAndKeysKept ==
    [][/\ Called({Dispute, Resolve, Chargeback}) =>
             DOMAIN transactions' = DOMAIN transactions
       /\ \A tx \in DOMAIN transactions' \ DOMAIN transactions :
             /\ Called({Deposit, Withdrawal})
             /\ result' = Ok
             /\ tx = transaction'.tx
             /\ transactions'[tx].amount = unwrap(transaction'.amount)
       /\ \A tx \in DOMAIN transactions \cap DOMAIN transactions' :
             transactions'[tx].amount = transactions[tx].amount]_vars

\* A Chargeback has returned Ok and the journal still holds its entry, with
\* the amount MAX of the withdrawal, next to the deposit's.
C20_Witness ==
    /\ transaction.type = Chargeback
    /\ result = Ok
    /\ len(transactions) = 2
    /\ transaction.tx \in DOMAIN transactions
    /\ transactions[transaction.tx].amount = MAX

\* C21: a Dispute that returns Ok raises held by the stored amount and a
\* Chargeback that returns Ok lowers held by the stored amount and sets
\* locked, both leaving available as it was; and no step changes the
\* available of an account but a Deposit, Withdrawal or Resolve of its
\* client that returns Ok.
C21_DisputeChargebackFrame ==
    [][/\ (Called({Dispute}) /\ result' = Ok) =>
             accounts'[transaction'.client] =
                [before' EXCEPT !.held = before'.held + transactions[transaction'.tx].amount]
       /\ (Called({Chargeback}) /\ result' = Ok) =>
             accounts'[transaction'.client] =
                [before' EXCEPT !.held = before'.held - transactions[transaction'.tx].amount,
                                !.locked = TRUE]
       /\ \A c \in DOMAIN accounts :
             accounts'[c].available # accounts[c].available =>
                /\ Called({Deposit, Withdrawal, Resolve})
                /\ result' = Ok
                /\ c = transaction'.client]_vars

\* The step applies a Deposit or Withdrawal record without amount to an
\* account that is not locked.
WithoutAmount ==
    /\ Called({Deposit, Withdrawal})
    /\ transaction'.amount = None
    /\ ~before'.locked

\* C25 (as stated): a Deposit or Withdrawal without amount addressed to an
\* unlocked account returns MissingAmount(tx) and keeps the account status
\* and the journal.
C25_MissingAmount ==
    [][WithoutAmount =>
         /\ result' = MissingAmount(transaction'.tx)
         /\ accounts'[transaction'.client] = before'
         /\ transactions' = transactions]_vars

\* C25 (amended): the same for a record whose id is not in the journal.
C25_MissingAmountFresh ==
    [][(WithoutAmount /\ transaction'.tx \notin DOMAIN transactions) =>
         /\ result' = MissingAmount(transaction'.tx)
         /\ accounts'[transaction'.client] = before'
         /\ transactions' = transactions]_vars

\* A Withdrawal without amount has returned MissingAmount on an account with
\* funds, next to a journal with entries.
C25_Witness ==
    /\ transaction.type = Withdrawal
    /\ transaction.amount = None
    /\ result = MissingAmount(transaction.tx)
    /\ before.available > 0
    /\ transactions # <<>>

\* C26: a record leaves the status of every account but its client's as it
\* was.
C26_OtherAccountsKept ==
    [][Processed =>
         \A c \in DOMAIN accounts \ {transaction'.client} :
             c \in DOMAIN accounts' /\ accounts'[c] = accounts[c]]_vars

\* A Deposit of a second client has returned Ok while the account of the
\* first is locked.
C26_Witness ==
    /\ transaction.type = Deposit
    /\ result = Ok
    /\ \E c \in DOMAIN accounts : c # transaction.client /\ accounts[c].locked

\* C27: a Dispute, Resolve or Chargeback of a client other than the one
\* whose record registered the entry changes no account and not the entry.
C27_OnlyOwnerDisputes ==
    [][(/\ Referencing
        /\ owner[transaction'.tx] # transaction'.client)
       => /\ accounts'[transaction'.client] = before'
          /\ \A c \in DOMAIN accounts : accounts'[c] = accounts[c]
          /\ transactions' = transactions]_vars

\* C28: a Deposit or Withdrawal whose id an earlier Deposit or Withdrawal
\* registered does not return Ok, whatever rollout has removed since.
C28_IdsNeverReused ==
    [][(Called({Deposit, Withdrawal}) /\ transaction'.tx \in DOMAIN owner)
       => result' # Ok]_vars

\* The sum of the amounts of the entries under dispute whose Dispute was
\* applied to the account of client c.
RECURSIVE SumOfAmounts(_)
SumOfAmounts(ids) ==
    IF ids = {} THEN 0
    ELSE LET tx == CHOOSE k \in ids : TRUE
         IN transactions[tx].amount + SumOfAmounts(ids \ {tx})

OpenDisputes(c) ==
    {tx \in DOMAIN transactions :
        /\ transactions[tx].type = Dispute
        /\ tx \in DOMAIN disputant
        /\ disputant[tx] = c}

\* C29: the held of every account is the sum of the amounts of the entries
\* under dispute whose Dispute was applied to it.
C29_HeldIsOpenDisputes ==
    \A c \in DOMAIN accounts : accounts[c].held = SumOfAmounts(OpenDisputes(c))

\* C22: called with max_capacity > 0, rollout_transactions returns, and
\* leaves fewer than max_capacity entries, so that one more fits.
C22_RolloutMakesRoom ==
    (rollout.status # "none" /\ rollout.status # "called" /\ rollout.max_capacity > 0) =>
        /\ rollout.status = "returned"
        /\ len(rollout.returned) < rollout.max_capacity
        /\ len(rollout.returned) + 1 <= rollout.max_capacity

\* A call with capacity 2 on a journal of three entries, none of them
\* ended, has returned one entry.
C22_Witness ==
    /\ rollout.status = "returned"
    /\ rollout.max_capacity = 2
    /\ len(rollout.transactions) = 3
    /\ \A k \in DOMAIN rollout.transactions :
          rollout.transactions[k].type \in {Deposit, Withdrawal, Dispute}
    /\ len(rollout.returned) = 1

\* The ended entries of a journal.
Ended(map) == {k \in DOMAIN map : map[k].type \in {Resolve, Chargeback}}

\* C23: with at least rollout_threshold entries, the first step removes
\* every Resolve and Chargeback entry and keeps every other entry as it is;
\* with fewer than rollout_threshold and fewer than max_capacity entries
\* the call removes nothing.
C23_RetainIsExact ==
    rollout.status = "returned" =>
        /\ len(rollout.transactions) >= rollout.rollout_threshold =>
              /\ DOMAIN rollout.retained =
                    DOMAIN rollout.transactions \ Ended(rollout.transactions)
              /\ \A k \in DOMAIN rollout.retained :
                    rollout.retained[k] = rollout.transactions[k]
        /\ (/\ len(rollout.transactions) < rollout.rollout_threshold
            /\ len(rollout.transactions) < rollout.max_capacity) =>
              rollout.returned = rollout.transactions

\* A call at its threshold on a journal with a Resolve, a Chargeback, a
\* Dispute and a Deposit entry has kept the last two.
C23_Witness ==
    /\ rollout.status = "returned"
    /\ len(rollout.transactions) = 4
    /\ rollout.rollout_threshold = 4
    /\ {rollout.transactions[k].type : k \in DOMAIN rollout.transactions}
          = {Resolve, Chargeback, Dispute, Deposit}
    /\ len(rollout.retained) = 2

\* The call register_transaction makes (line 129) has returned.
RegistrationRollout ==
    /\ rollout.status = "returned"
    /\ rollout.rollout_threshold = ROLLOUT_TRANSACTION_THRESHOLD
    /\ rollout.max_capacity = MAX_TRANSACTION_CAPACITY

\* The ids the loop has removed are below every id it has left.
SmallestRemoved ==
    \A k \in DOMAIN rollout.retained \ DOMAIN rollout.returned :
        \A j \in DOMAIN rollout.returned : k < j

\* C24 (as stated): with MAX_TRANSACTION_CAPACITY - 1 entries the loop
\* removes nothing; with MAX_TRANSACTION_CAPACITY entries the entry of the
\* smallest id is removed, and no larger id while a smaller one stays.
C24_CapacityBoundary ==
    RegistrationRollout =>
        /\ len(rollout.transactions) = MAX_TRANSACTION_CAPACITY - 1 =>
              rollout.returned = rollout.retained
        /\ len(rollout.transactions) = MAX_TRANSACTION_CAPACITY =>
              /\ \E k \in DOMAIN rollout.transactions \ DOMAIN rollout.returned :
                    \A j \in DOMAIN rollout.transactions : k <= j
              /\ SmallestRemoved

\* C24 (amended): with MAX_TRANSACTION_CAPACITY - 1 entries the loop removes
\* nothing; with MAX_TRANSACTION_CAPACITY entries none of which is ended,
\* exactly the entry of the smallest id is removed; with
\* MAX_TRANSACTION_CAPACITY entries some of which are ended, the ended ones
\* are removed and the loop removes nothing.
C24_CapacityBoundaryUnlessEnded ==
    RegistrationRollout =>
        /\ len(rollout.transactions) = MAX_TRANSACTION_CAPACITY - 1 =>
              rollout.returned = rollout.retained
        /\ (/\ len(rollout.transactions) = MAX_TRANSACTION_CAPACITY
            /\ Ended(rollout.transactions) = {}) =>
              /\ \E k \in DOMAIN rollout.transactions :
                    /\ \A j \in DOMAIN rollout.transactions : k <= j
                    /\ DOMAIN rollout.returned = DOMAIN rollout.transactions \ {k}
              /\ \A j \in DOMAIN rollout.returned :
                    rollout.returned[j] = rollout.transactions[j]
        /\ (/\ len(rollout.transactions) = MAX_TRANSACTION_CAPACITY
            /\ Ended(rollout.transactions) # {}) =>
              /\ rollout.returned = rollout.retained
              /\ DOMAIN rollout.returned =
                    DOMAIN rollout.transactions \ Ended(rollout.transactions)

\* The call of a registration on a full journal without ended entries has
\* removed id 1 and kept the larger ids.
C24_Witness ==
    /\ RegistrationRollout
    /\ len(rollout.transactions) = MAX_TRANSACTION_CAPACITY
    /\ Ended(rollout.transactions) = {}
    /\ 1 \in DOMAIN rollout.transactions
    /\ 1 \notin DOMAIN rollout.returned
    /\ len(rollout.returned) = MAX_TRANSACTION_CAPACITY - 1

====
